---- MODULE Spec2Model ----
(***************************************************************************)
(* Model of databases/backends/mysql.py: the reference-counted connection  *)
(* lease of MySQLSession and the BEGIN/SAVEPOINT state machine of          *)
(* MySQLTransaction.  One action is one whole call of a public coroutine,  *)
(* issued while no other call of the session is in flight.  Every external *)
(* call the coroutine awaits (pool, cursor, statement) may raise; F is the *)
(* set of external calls that raise during the call being modelled.  A     *)
(* call that raises has no effect on the pool or on the server.            *)
(***************************************************************************)
EXTENDS Integers, Sequences, FiniteSets, TLC

\* ---------------------------------------------------------------- bounds
NConn == 1
NTx == 2
NRows == 1
MaxSavepoints == 1
MaxHolders == 2
MaxDeficit == 1
MaxValues == 1
MaxFaults == 1
MaxHeld == 1
NTasks == 2

\* `None`: the value of an attribute that is unset (self.conn = None).
None == 0

Conns == 1 .. NConn
Txs == 1 .. NTx
Rows == 1 .. NRows
Names == 1 .. MaxSavepoints
Tasks == 1 .. NTasks

VARIABLES
  conn,                  \* MySQLSession.conn            (None or a connection)
  connection_holders,    \* MySQLSession.connection_holders
  has_root_transaction,  \* MySQLSession.has_root_transaction
  is_root,               \* MySQLTransaction.is_root,        per transaction
  tx_conn,               \* MySQLTransaction.conn,           per transaction
  savepoint_name,        \* MySQLTransaction.savepoint_name, per transaction
  pool_free,             \* connections the pool holds (not borrowed)
  in_trans,              \* per connection: the server has a transaction open
  pending,               \* per connection: rows inserted and not committed
  savepoints,            \* per connection: sequence of <<name, snapshot>>
  committed,             \* rows in persistent state
  tx_state,              \* per transaction: "unstarted", "active", "terminated"
  nesting,               \* the active transactions, outermost first
  held,                  \* leases the caller took by acquire_connection itself
  faults,                \* irregular calls so far (raised, or against the contract)
  rollback_transaction,  \* MySQLSession._rollback_transaction (None or a transaction)
  scope,                 \* the session's scope: "out", "in" (entered), "closed"
  persistent_before,     \* the persistent rows when the session was made
  pc,                    \* per task: [at: the await it is suspended in, tx: of which start()]
  lease                  \* per task: the connection acquire_connection gave it

\* A task that is in no call.
Idle == [at |-> "idle", tx |-> None]

\* What belongs to the session's scope and what to the tasks.
scope_vars == <<rollback_transaction, scope, persistent_before>>

task_vars == <<pc, lease>>

vars == <<conn, connection_holders, has_root_transaction, is_root, tx_conn,
          savepoint_name, pool_free, in_trans, pending, savepoints, committed,
          tx_state, nesting, held, faults, scope_vars, task_vars>>

\* ------------------------------------------------- the state as one value
\* The coroutines are sequences of steps; each step is a function from the
\* program state (a record) to the program state.  The record also holds
\* what is local to the call being made: `err` is the exception in flight
\* ("none" when there is none), `raised` every exception raised so far,
\* `calls` the external calls made so far, each with the connection it was
\* made on and with whether the pool held that connection at that moment,
\* and `cursor` the state of the cursor the call opened.
Now ==
  [conn |-> conn, holders |-> connection_holders, has_root |-> has_root_transaction,
   is_root |-> is_root, tx_conn |-> tx_conn, savepoint_name |-> savepoint_name,
   free |-> pool_free, in_trans |-> in_trans, pending |-> pending,
   savepoints |-> savepoints, committed |-> committed,
   err |-> "none", raised |-> <<>>, calls |-> <<>>, cursor |-> "none"]

Call(s, name, c) == [s EXCEPT !.calls = Append(@, <<name, c, c \in s.free>>)]

Raise(s, e) == [s EXCEPT !.err = e, !.raised = Append(@, e)]

Ok(s) == s.err = "none"

\* `await f(...)` followed by the rest of the coroutine: the rest runs on the
\* state f left, unless f raised.
Then(s, rest(_)) == IF Ok(s) THEN rest(s) ELSE s

\* A step that may raise: the external call `name` on connection c, which
\* raises (and does nothing) when `fail`, and has `effect` otherwise.
Await(s, name, c, fail, error, effect(_)) ==
  IF fail THEN Raise(Call(s, name, c), error) ELSE effect(Call(s, name, c))

Same(s) == s

\* -------------------------------------------------------------- the pool
\* pool.acquire() hands out a connection the pool holds.
PoolAcquire(s, c) == [s EXCEPT !.conn = c, !.free = @ \ {c}]

\* pool.release(conn) takes the connection back.  The driver's pool closes a
\* connection that is returned with a transaction open, which makes the
\* server roll that transaction back; the slot is refilled by a new
\* connection.
PoolRelease(s, c) ==
  IF s.in_trans[c]
    THEN [s EXCEPT !.free = @ \cup {c}, !.in_trans[c] = FALSE,
                   !.pending[c] = {}, !.savepoints[c] = <<>>]
    ELSE [s EXCEPT !.free = @ \cup {c}]

\* --------------------------------------------------------------- session
\* MySQLSession.acquire_connection.  `pick` is the connection the pool hands
\* out when it is asked.
acquire_connection(s, pick, F) ==
  IF s.conn = None
    THEN Await([s EXCEPT !.holders = @ + 1], "pool.acquire", None,
               "pool.acquire" \in F \/ pick \notin s.free, "pool.acquire",
               LAMBDA a : PoolAcquire(a, pick))
    ELSE [s EXCEPT !.holders = @ + 1]

\* release_connection without `self.conn = None`: the session keeps naming
\* the connection it gave back.
release_connection_keeps_conn(s, F) ==
  IF s.holders - 1 = 0
    THEN Await([s EXCEPT !.holders = @ - 1], "pool.release", s.conn,
               "pool.release" \in F \/ s.conn = None \/ s.conn \in s.free,
               "pool.release",
               LAMBDA a : PoolRelease(a, s.conn))
    ELSE [s EXCEPT !.holders = @ - 1]

\* MySQLSession.release_connection.  The pool refuses (raises on) a connection
\* it did not lend, None included.
release_connection(s, F) ==
  IF s.holders - 1 = 0
    THEN Await([s EXCEPT !.holders = @ - 1], "pool.release", s.conn,
               "pool.release" \in F \/ s.conn = None \/ s.conn \in s.free,
               "pool.release",
               LAMBDA a : [PoolRelease(a, s.conn) EXCEPT !.conn = None])
    ELSE [s EXCEPT !.holders = @ - 1]

\* ------------------------------------------------------------ the server
\* What a connection sees: persistent rows and its own uncommitted rows.
View(s, c) == s.committed \cup s.pending[c]

SavepointNames(s, c) ==
  {s.savepoints[c][i][1] : i \in 1 .. Len(s.savepoints[c])}

SavepointIndex(s, c, n) ==
  CHOOSE i \in 1 .. Len(s.savepoints[c]) : s.savepoints[c][i][1] = n

\* conn.begin(): BEGIN.  The server commits a transaction that is open.
ServerBegin(s, c) ==
  [s EXCEPT !.committed = @ \cup s.pending[c], !.pending[c] = {},
            !.savepoints[c] = <<>>, !.in_trans[c] = TRUE]

\* conn.commit(): COMMIT.
ServerCommit(s, c) ==
  [s EXCEPT !.committed = @ \cup s.pending[c], !.pending[c] = {},
            !.savepoints[c] = <<>>, !.in_trans[c] = FALSE]

\* conn.rollback(): ROLLBACK.
ServerRollback(s, c) ==
  [s EXCEPT !.pending[c] = {}, !.savepoints[c] = <<>>, !.in_trans[c] = FALSE]

\* An INSERT of row r.  It stays uncommitted until COMMIT (see Statement).
ServerInsert(s, c, r) ==
  [s EXCEPT !.pending[c] = @ \cup {r}]

\* SAVEPOINT n: a savepoint of the same name is replaced.
ServerSavepoint(s, c, n) ==
  [s EXCEPT !.savepoints[c] =
     Append(SelectSeq(@, LAMBDA e : e[1] # n), <<n, s.pending[c]>>)]

\* ROLLBACK TO SAVEPOINT n: undoes what came after n; n and the enclosing
\* transaction stay.
ServerRollbackTo(s, c, n) ==
  LET i == SavepointIndex(s, c, n) IN
  [s EXCEPT !.pending[c] = s.savepoints[c][i][2],
            !.savepoints[c] = SubSeq(@, 1, i)]

\* RELEASE SAVEPOINT n: removes n (and the savepoints set after it).
ServerRelease(s, c, n) ==
  LET i == SavepointIndex(s, c, n) IN
  [s EXCEPT !.savepoints[c] = SubSeq(@, 1, i - 1)]

\* ---------------------------------------------------------------- cursor
\* conn.cursor()
cursor_open(s, c, F) ==
  Await(s, "cursor", c, "cursor" \in F, "cursor",
        LAMBDA a : [a EXCEPT !.cursor = "open"])

\* A statement the server executes.  The pool's connections are created
\* without autocommit (create_pool is given none), so a statement outside a
\* transaction opens one.
Statement(s, c) == [s EXCEPT !.in_trans[c] = TRUE]

\* What the server does with a statement it accepts.
ServerExecute(s, c, stmt) ==
  CASE stmt[1] = "INSERT" -> ServerInsert(Statement(s, c), c, stmt[2])
    [] stmt[1] = "SAVEPOINT" -> ServerSavepoint(Statement(s, c), c, stmt[2])
    [] stmt[1] = "RELEASE SAVEPOINT" -> ServerRelease(Statement(s, c), c, stmt[2])
    [] stmt[1] = "ROLLBACK TO SAVEPOINT" -> ServerRollbackTo(Statement(s, c), c, stmt[2])
    [] OTHER -> Statement(s, c)

\* The server refuses a savepoint name it does not know.
Refused(s, c, stmt) ==
  /\ stmt[1] \in {"RELEASE SAVEPOINT", "ROLLBACK TO SAVEPOINT"}
  /\ stmt[2] \notin SavepointNames(s, c)

\* cursor.execute(stmt); stmt is <<kind, argument>>.
cursor_execute(s, c, stmt, fail) ==
  Await(s, stmt[1], c, fail \/ Refused(s, c, stmt), "execute",
        LAMBDA a : ServerExecute(a, c, stmt))

\* cursor.fetchall() / cursor.fetchone()
cursor_fetch(s, c, F) == Await(s, "fetch", c, "fetch" \in F, "fetch", Same)

\* cursor.close()
cursor_close(s, c, F) ==
  Await(s, "cursor.close", c, "cursor.close" \in F, "cursor.close",
        LAMBDA a : [a EXCEPT !.cursor = "closed"])

\* `finally:` semantics: the clean-up runs with no exception in flight; if
\* it raises, its exception replaces the one of the body, otherwise the
\* body's exception (if any) is raised again.
Reraise(body, cleaned) ==
  IF Ok(cleaned) THEN [cleaned EXCEPT !.err = body.err] ELSE cleaned

NoErr(s) == [s EXCEPT !.err = "none"]

\* The clean-up without `finally`: it runs only when the body did not raise.
close_and_release_unless_raised(body, F) ==
  IF Ok(body)
    THEN Then(cursor_close(body, body.conn, F),
              LAMBDA c : release_connection(c, F))
    ELSE body

\* finally: await cursor.close(); await self.release_connection()
CloseAndRelease(body, F) ==
  Reraise(body, Then(cursor_close(NoErr(body), body.conn, F),
                     LAMBDA c : release_connection(c, F)))

\* finally: await cursor.close()
CloseOnly(body, c, F) == Reraise(body, cursor_close(NoErr(body), c, F))

\* MySQLSession.fetchall / fetchone: a SELECT and a fetch.
fetch_query(s, pick, F) ==
  Then(acquire_connection(s, pick, F), LAMBDA a :
  Then(cursor_open(a, a.conn, F), LAMBDA c :
  CloseAndRelease(
    Then(cursor_execute(c, c.conn, <<"SELECT", None>>, "execute" \in F),
         LAMBDA e : cursor_fetch(e, e.conn, F)),
    F)))

fetchall(s, pick, F) == fetch_query(s, pick, F)

fetchone(s, pick, F) == fetch_query(s, pick, F)

\* MySQLSession.execute, of an INSERT of row r.
execute(s, r, pick, F) ==
  Then(acquire_connection(s, pick, F), LAMBDA a :
  Then(cursor_open(a, a.conn, F), LAMBDA c :
  CloseAndRelease(cursor_execute(c, c.conn, <<"INSERT", r>>, "execute" \in F), F)))

\* for item in values: ... await cursor.execute(single_query, args)
\* failAt is the iteration whose execution raises (0: none does).
RECURSIVE execute_each(_, _, _, _)
execute_each(s, values, i, failAt) ==
  IF i > Len(values) \/ ~Ok(s) THEN s
  ELSE execute_each(cursor_execute(s, s.conn, <<"INSERT", values[i]>>, i = failAt),
                    values, i + 1, failAt)

\* executemany that returns at once when there is nothing to execute.
executemany_skips_empty(s, values, failAt, pick, F) ==
  IF values = <<>> THEN s
  ELSE Then(acquire_connection(s, pick, F), LAMBDA a :
       Then(cursor_open(a, a.conn, F), LAMBDA c :
       CloseAndRelease(execute_each(c, values, 1, failAt), F)))

\* MySQLSession.executemany, of INSERTs of the rows `values`.
executemany(s, values, failAt, pick, F) ==
  Then(acquire_connection(s, pick, F), LAMBDA a :
  Then(cursor_open(a, a.conn, F), LAMBDA c :
  CloseAndRelease(execute_each(c, values, 1, failAt), F)))

\* ----------------------------------------------------------- transaction
\* conn.begin() / conn.commit() / conn.rollback()
conn_begin(s, c, F) ==
  Await(s, "BEGIN", c, "begin" \in F, "begin", LAMBDA a : ServerBegin(a, c))

conn_commit(s, c, F) ==
  Await(s, "COMMIT", c, "commit" \in F, "commit", LAMBDA a : ServerCommit(a, c))

conn_rollback(s, c, F) ==
  Await(s, "ROLLBACK", c, "rollback" \in F, "rollback",
        LAMBDA a : ServerRollback(a, c))

\* str(uuid.uuid4()): a name no transaction object and no connection knows.
\* Names that nothing refers to any more are handed out again.
UsedNames(s) ==
  {s.savepoint_name[t] : t \in Txs} \cup UNION {SavepointNames(s, c) : c \in Conns}

FreshName(s) ==
  CHOOSE n \in Names \ UsedNames(s) : \A m \in Names \ UsedNames(s) : n <= m

\* Reading an attribute that was never assigned raises AttributeError.
Attribute(s, value, rest(_)) ==
  IF value = None THEN Raise(s, "AttributeError") ELSE rest(s)

\* cursor = await self.conn.cursor(); try: execute(f"<kind> {name}")
\* finally: cursor.close()
savepoint_statement(s, t, kind, F) ==
  Attribute(s, s.tx_conn[t], LAMBDA s0 :
  Then(cursor_open(s0, s0.tx_conn[t], F), LAMBDA c :
  CloseOnly(Attribute(c, c.savepoint_name[t], LAMBDA c0 :
              cursor_execute(c0, c0.tx_conn[t], <<kind, c0.savepoint_name[t]>>,
                             "execute" \in F)),
            c.tx_conn[t], F)))

\* The root decision without the test of has_root_transaction: every
\* transaction becomes root.
decide_root_always(s, t) ==
  [s EXCEPT !.has_root = TRUE, !.is_root[t] = TRUE]

\* The root decision that does not set the flag of the session.
decide_root_without_flag(s, t) ==
  IF s.has_root = FALSE THEN [s EXCEPT !.is_root[t] = TRUE] ELSE s

\* if self.session.has_root_transaction is False: ... (the root decision)
decide_root(s, t) ==
  IF s.has_root = FALSE
    THEN [s EXCEPT !.has_root = TRUE, !.is_root[t] = TRUE]
    ELSE s

\* if self.is_root: await self.conn.begin() else: SAVEPOINT of a new name
begin_or_savepoint(s, t, F) ==
  IF s.is_root[t]
    THEN conn_begin(s, s.tx_conn[t], F)
    ELSE savepoint_statement([s EXCEPT !.savepoint_name[t] = FreshName(s)],
                             t, "SAVEPOINT", F)

\* MySQLTransaction.start
start(s, t, pick, F) ==
  Then(acquire_connection(decide_root(s, t), pick, F), LAMBDA a :
  begin_or_savepoint([a EXCEPT !.tx_conn[t] = a.conn], t, F))

\* commit() that clears the root flag in both branches.
commit_or_release_clears_flag(s, t, F) ==
  IF s.is_root[t]
    THEN Attribute(s, s.tx_conn[t], LAMBDA s0 :
         Then(conn_commit(s0, s0.tx_conn[t], F), LAMBDA c :
         [c EXCEPT !.has_root = FALSE]))
    ELSE Then(savepoint_statement(s, t, "RELEASE SAVEPOINT", F), LAMBDA c :
         [c EXCEPT !.has_root = FALSE])

\* if self.is_root: await self.conn.commit(); has_root_transaction = False
\* else: RELEASE SAVEPOINT
commit_or_release(s, t, F) ==
  IF s.is_root[t]
    THEN Attribute(s, s.tx_conn[t], LAMBDA s0 :
         Then(conn_commit(s0, s0.tx_conn[t], F), LAMBDA c :
         [c EXCEPT !.has_root = FALSE]))
    ELSE savepoint_statement(s, t, "RELEASE SAVEPOINT", F)

\* commit() that gives the lease back first.
commit_release_first(s, t, F) ==
  Then(release_connection(s, F), LAMBDA b : commit_or_release(b, t, F))

\* commit() without its last statement: the lease is kept.
commit_without_release(s, t, F) == commit_or_release(s, t, F)

\* MySQLTransaction.commit
commit(s, t, F) ==
  Then(commit_or_release(s, t, F), LAMBDA b : release_connection(b, F))

\* rollback() without the test of is_root: always the native ROLLBACK.
rollback_always_native(s, t, F) ==
  Attribute(s, s.tx_conn[t], LAMBDA s0 :
  Then(conn_rollback(s0, s0.tx_conn[t], F), LAMBDA c :
  [c EXCEPT !.has_root = FALSE]))

\* if self.is_root: await self.conn.rollback(); has_root_transaction = False
\* else: ROLLBACK TO SAVEPOINT
rollback_or_rollback_to(s, t, F) ==
  IF s.is_root[t]
    THEN Attribute(s, s.tx_conn[t], LAMBDA s0 :
         Then(conn_rollback(s0, s0.tx_conn[t], F), LAMBDA c :
         [c EXCEPT !.has_root = FALSE]))
    ELSE savepoint_statement(s, t, "ROLLBACK TO SAVEPOINT", F)

\* rollback() without its last statement: the lease is kept.
rollback_without_release(s, t, F) == rollback_or_rollback_to(s, t, F)

\* MySQLTransaction.rollback
rollback(s, t, F) ==
  Then(rollback_or_rollback_to(s, t, F), LAMBDA b : release_connection(b, F))

\* __init__ that also takes the connection of the session.
transaction_with_conn(s, t) ==
  [s EXCEPT !.is_root[t] = FALSE, !.tx_conn[t] = s.conn, !.savepoint_name[t] = None]

\* MySQLSession.transaction(): MySQLTransaction.__init__
transaction(s, t) ==
  [s EXCEPT !.is_root[t] = FALSE, !.tx_conn[t] = None, !.savepoint_name[t] = None]

\* MySQLSession.__aenter__; rt is self._rollback_transaction.
aenter(s, rt, pick, F) == IF rt # None THEN start(s, rt, pick, F) ELSE s

\* __aexit__ that commits the isolation transaction.
aexit_commits(s, rt, F) == IF rt # None THEN commit(s, rt, F) ELSE s

\* MySQLSession.__aexit__
aexit(s, rt, F) == IF rt # None THEN rollback(s, rt, F) ELSE s

\* ---------------------------------------------------------------- actions
\* The external calls that can raise during each kind of call.  A call
\* raises at most twice: once in its body and once in its clean-up, where the
\* first exception ends the body and the first exception ends the clean-up.
CleanupPoints == {"cursor.close", "pool.release"}

Failures(points) ==
  {F \in SUBSET points : /\ Cardinality(F \ CleanupPoints) <= 1
                         /\ Cardinality(F \cap CleanupPoints) <= 1}

LeasePoints == {"pool.acquire"}
ReleasePoints == {"pool.release"}
QueryPoints ==
  {"pool.acquire", "cursor", "execute", "fetch", "cursor.close", "pool.release"}
ExecutePoints == QueryPoints \ {"fetch"}
ManyPoints == ExecutePoints \ {"execute"}
StartPoints == {"pool.acquire", "begin", "cursor", "execute", "cursor.close"}
CommitPoints == {"commit", "cursor", "execute", "cursor.close", "pool.release"}
RollbackPoints == {"rollback", "cursor", "execute", "cursor.close", "pool.release"}

\* The connections pool.acquire() may hand out, if it is asked.
Picks == IF conn = None /\ pool_free # {} THEN pool_free ELSE {None}

ValueLists == UNION {[1 .. n -> Rows] : n \in 0 .. MaxValues}

\* The call returns (or raises): the program state is the one it left.
Return(s) ==
  /\ conn' = s.conn
  /\ connection_holders' = s.holders
  /\ has_root_transaction' = s.has_root
  /\ is_root' = s.is_root
  /\ tx_conn' = s.tx_conn
  /\ savepoint_name' = s.savepoint_name
  /\ pool_free' = s.free
  /\ in_trans' = s.in_trans
  /\ pending' = s.pending
  /\ savepoints' = s.savepoints
  /\ committed' = s.committed

Remove(seq, t) == SelectSeq(seq, LAMBDA x : x # t)

Top(seq) == IF seq = <<>> THEN None ELSE seq[Len(seq)]

\* A call is irregular when it raises or when the user breaks the contract of
\* the session with it.  `budget` is how many irregular calls a behaviour may
\* hold; `faults` counts them.
Account(irregular, budget) ==
  /\ irregular => faults < budget
  /\ faults' = IF irregular THEN faults + 1 ELSE faults

\* await session.acquire_connection(), called by the user of the session
AcquireConnection(Fs, budget) ==
  \E pick \in Picks, F \in Fs :
    /\ connection_holders < MaxHolders
    /\ held < MaxHeld
    /\ \E s \in {acquire_connection(Now, pick, F)} :
         /\ Return(s)
         /\ held' = IF Ok(s) THEN held + 1 ELSE held
         /\ Account(~Ok(s), budget)
    /\ UNCHANGED <<tx_state, nesting, scope_vars, task_vars>>

\* await session.release_connection(), called by the user of the session;
\* the contract: only for a lease the user took.
ReleaseConnection(Fs, budget) ==
  \E F \in Fs :
    /\ connection_holders > -MaxDeficit
    /\ \E s \in {release_connection(Now, F)} :
         /\ Return(s)
         /\ Account(~Ok(s) \/ held = 0, budget)
    /\ held' = IF held > 0 THEN held - 1 ELSE held
    /\ UNCHANGED <<tx_state, nesting, scope_vars, task_vars>>

Fetchall(Fs, budget) ==
  \E pick \in Picks, F \in Fs :
    /\ connection_holders <= MaxHolders
    /\ \E s \in {fetchall(Now, pick, F)} :
         /\ Return(s)
         /\ Account(~Ok(s), budget)
    /\ UNCHANGED <<tx_state, nesting, held, scope_vars, task_vars>>

Fetchone(Fs, budget) ==
  \E pick \in Picks, F \in Fs :
    /\ connection_holders <= MaxHolders
    /\ \E s \in {fetchone(Now, pick, F)} :
         /\ Return(s)
         /\ Account(~Ok(s), budget)
    /\ UNCHANGED <<tx_state, nesting, held, scope_vars, task_vars>>

Execute(Fs, budget) ==
  \E r \in Rows, pick \in Picks, F \in Fs :
    /\ connection_holders <= MaxHolders
    /\ \E s \in {execute(Now, r, pick, F)} :
         /\ Return(s)
         /\ Account(~Ok(s), budget)
    /\ UNCHANGED <<tx_state, nesting, held, scope_vars, task_vars>>

\* failing: whether one of the executions may raise
Executemany(Fs, failing, budget) ==
  \E values \in ValueLists, pick \in Picks, F \in Fs :
    \E failAt \in IF failing THEN 0 .. Len(values) ELSE {0} :
      /\ connection_holders <= MaxHolders
      /\ \E s \in {executemany(Now, values, failAt, pick, F)} :
           /\ Return(s)
           /\ Account(~Ok(s), budget)
      /\ UNCHANGED <<tx_state, nesting, held, scope_vars, task_vars>>

\* transaction = session.transaction(): slot t holds a new object
NewTransaction(t) ==
  /\ tx_state[t] # "active"
  /\ Return(transaction(Now, t))
  /\ tx_state' = [tx_state EXCEPT ![t] = "unstarted"]
  /\ UNCHANGED <<nesting, held, faults, scope_vars, task_vars>>

\* await transaction.start(); the contract: on an object not started before.
Start(t, Fs, budget) ==
  \E pick \in Picks, F \in Fs :
    /\ connection_holders < MaxHolders
    /\ (has_root_transaction /\ ~is_root[t]) => Names \ UsedNames(Now) # {}
    /\ \E s \in {start(Now, t, pick, F)} :
         /\ Return(s)
         /\ tx_state' = IF Ok(s) THEN [tx_state EXCEPT ![t] = "active"] ELSE tx_state
         /\ nesting' = IF Ok(s) THEN Append(Remove(nesting, t), t) ELSE nesting
         /\ Account(~Ok(s) \/ tx_state[t] # "unstarted", budget)
    /\ UNCHANGED <<held, scope_vars, task_vars>>

\* await transaction.commit(); the contract: on the innermost active one.
Commit(t, Fs, budget) ==
  \E F \in Fs :
    /\ connection_holders > -MaxDeficit
    /\ \E s \in {commit(Now, t, F)} :
         /\ Return(s)
         /\ tx_state' = IF Ok(s) THEN [tx_state EXCEPT ![t] = "terminated"] ELSE tx_state
         /\ nesting' = IF Ok(s) THEN Remove(nesting, t) ELSE nesting
         /\ Account(~Ok(s) \/ Top(nesting) # t, budget)
    /\ UNCHANGED <<held, scope_vars, task_vars>>

\* await transaction.rollback(); the contract: on the innermost active one.
Rollback(t, Fs, budget) ==
  \E F \in Fs :
    /\ connection_holders > -MaxDeficit
    /\ \E s \in {rollback(Now, t, F)} :
         /\ Return(s)
         /\ tx_state' = IF Ok(s) THEN [tx_state EXCEPT ![t] = "terminated"] ELSE tx_state
         /\ nesting' = IF Ok(s) THEN Remove(nesting, t) ELSE nesting
         /\ Account(~Ok(s) \/ Top(nesting) # t, budget)
    /\ UNCHANGED <<held, scope_vars, task_vars>>

\* MySQLSession.__init__, on a pool whose connections are all free and idle;
\* no task has called anything.
NewSession ==
  /\ conn = None
  /\ connection_holders = 0
  /\ has_root_transaction = FALSE
  /\ is_root = [t \in Txs |-> FALSE]
  /\ tx_conn = [t \in Txs |-> None]
  /\ savepoint_name = [t \in Txs |-> None]
  /\ pool_free = Conns
  /\ in_trans = [c \in Conns |-> FALSE]
  /\ pending = [c \in Conns |-> {}]
  /\ savepoints = [c \in Conns |-> <<>>]
  /\ tx_state = [t \in Txs |-> "unstarted"]
  /\ nesting = <<>>
  /\ held = 0
  /\ faults = 0
  /\ scope = "out"
  /\ pc = [k \in Tasks |-> Idle]
  /\ lease = [k \in Tasks |-> None]

\* A session made without rollback_isolation, on an empty database.
Init ==
  /\ NewSession
  /\ committed = {}
  /\ persistent_before = {}
  /\ rollback_transaction = None

\* Any call in any order, and any external call may raise, as long as the
\* behaviour holds at most MaxFaults irregular calls.
Next ==
  \/ AcquireConnection(Failures(LeasePoints), MaxFaults)
  \/ ReleaseConnection(Failures(ReleasePoints), MaxFaults)
  \/ Fetchall(Failures(QueryPoints), MaxFaults)
  \/ Fetchone(Failures(QueryPoints), MaxFaults)
  \/ Execute(Failures(ExecutePoints), MaxFaults)
  \/ Executemany(Failures(ManyPoints), TRUE, MaxFaults)
  \/ \E t \in Txs : NewTransaction(t)
  \/ \E t \in Txs : Start(t, Failures(StartPoints), MaxFaults)
  \/ \E t \in Txs : Commit(t, Failures(CommitPoints), MaxFaults)
  \/ \E t \in Txs : Rollback(t, Failures(RollbackPoints), MaxFaults)

Spec == Init /\ [][Next]_vars

\* The calls of a user that keeps the contract, with no external call
\* raising: no irregular call at all.
NoFailure == {{}}

NextNested ==
  \/ AcquireConnection(NoFailure, 0)
  \/ ReleaseConnection(NoFailure, 0)
  \/ Fetchall(NoFailure, 0)
  \/ Fetchone(NoFailure, 0)
  \/ Execute(NoFailure, 0)
  \/ Executemany(NoFailure, FALSE, 0)
  \/ \E t \in Txs : NewTransaction(t)
  \/ \E t \in Txs : Start(t, NoFailure, 0)
  \/ \E t \in Txs : Commit(t, NoFailure, 0)
  \/ \E t \in Txs : Rollback(t, NoFailure, 0)

SpecNested == Init /\ [][NextNested]_vars

\* ------------------------------------------------------- overlapping calls
\* The coroutines cut at their suspension points.  A task runs from one await
\* to the next without any other task running.
\* acquire_connection up to `await self.pool.acquire()`
acquire_call(s) == [s EXCEPT !.holders = @ + 1]

\* acquire_connection from the moment pool.acquire() returns `pick`
acquire_resume(s, pick) == PoolAcquire(s, pick)

\* release_connection up to the suspension in `await self.pool.release(...)`:
\* the pool takes the connection back when it is called, and the caller is
\* resumed later.
release_call(s) ==
  IF s.holders - 1 = 0
    THEN Await([s EXCEPT !.holders = @ - 1], "pool.release", s.conn,
               s.conn = None \/ s.conn \in s.free, "pool.release",
               LAMBDA a : PoolRelease(a, s.conn))
    ELSE [s EXCEPT !.holders = @ - 1]

\* release_connection from the moment pool.release() returns
release_resume(s) == [s EXCEPT !.conn = None]

\* start() up to `await self.pool.acquire()` inside acquire_connection
start_call(s, t) == acquire_call(decide_root(s, t))

\* start() from the return of acquire_connection
start_rest(s, t) == begin_or_savepoint([s EXCEPT !.tx_conn[t] = s.conn], t, {})

\* start() from the moment pool.acquire() returns `pick`
start_resume(s, t, pick) == start_rest(acquire_resume(s, pick), t)

AllIdle == \A k \in Tasks : pc[k] = Idle

\* Task k calls acquire_connection()
AcquireCall(k) ==
  /\ pc[k] = Idle /\ lease[k] = None
  /\ connection_holders < MaxHolders
  /\ Return(acquire_call(Now))
  /\ IF conn = None
       THEN /\ pc' = [pc EXCEPT ![k].at = "acquire"]
            /\ UNCHANGED <<lease, held>>
       ELSE /\ lease' = [lease EXCEPT ![k] = conn]
            /\ held' = held + 1
            /\ UNCHANGED pc
  /\ UNCHANGED <<tx_state, nesting, faults, scope_vars>>

\* pool.acquire() returns to task k, suspended in acquire_connection()
AcquireResume(k) ==
  \E pick \in pool_free :
    /\ pc[k].at = "acquire"
    /\ Return(acquire_resume(Now, pick))
    /\ pc' = [pc EXCEPT ![k] = Idle]
    /\ lease' = [lease EXCEPT ![k] = pick]
    /\ held' = held + 1
    /\ UNCHANGED <<tx_state, nesting, faults, scope_vars>>

\* Task k calls release_connection() for the lease it holds
ReleaseCall(k) ==
  /\ pc[k] = Idle /\ lease[k] # None
  /\ \E s \in {release_call(Now)} :
       /\ Return(s)
       /\ pc' = IF Ok(s) /\ s.holders = 0
                  THEN [pc EXCEPT ![k].at = "release"] ELSE pc
  /\ lease' = [lease EXCEPT ![k] = None]
  /\ held' = held - 1
  /\ UNCHANGED <<tx_state, nesting, faults, scope_vars>>

\* pool.release() returns to task k, suspended in release_connection()
ReleaseResume(k) ==
  /\ pc[k].at = "release"
  /\ Return(release_resume(Now))
  /\ pc' = [pc EXCEPT ![k] = Idle]
  /\ UNCHANGED <<tx_state, nesting, held, faults, lease, scope_vars>>

\* Task k calls start() on transaction t, which was not started before
StartCall(k, t) ==
  /\ pc[k] = Idle
  /\ tx_state[t] = "unstarted"
  /\ connection_holders < MaxHolders
  /\ IF conn = None
       THEN /\ Return(start_call(Now, t))
            /\ pc' = [pc EXCEPT ![k] = [at |-> "start", tx |-> t]]
            /\ tx_state' = [tx_state EXCEPT ![t] = "starting"]
            /\ UNCHANGED nesting
       ELSE /\ has_root_transaction => Names \ UsedNames(Now) # {}
            /\ Return(start_rest(start_call(Now, t), t))
            /\ tx_state' = [tx_state EXCEPT ![t] = "active"]
            /\ nesting' = Append(nesting, t)
            /\ UNCHANGED pc
  /\ UNCHANGED <<held, faults, lease, scope_vars>>

\* pool.acquire() returns to task k, suspended in start()
StartResume(k) ==
  \E pick \in pool_free :
    /\ pc[k].at = "start"
    /\ ~is_root[pc[k].tx] => Names \ UsedNames(Now) # {}
    /\ Return(start_resume(Now, pc[k].tx, pick))
    /\ tx_state' = [tx_state EXCEPT ![pc[k].tx] = "active"]
    /\ nesting' = Append(nesting, pc[k].tx)
    /\ pc' = [pc EXCEPT ![k] = Idle]
    /\ UNCHANGED <<held, faults, lease, scope_vars>>

\* Tasks overlap their calls of acquire_connection, release_connection and
\* start; transactions are made, committed and rolled back while no call is
\* in flight, innermost first.
NextTasks ==
  \/ \E k \in Tasks : AcquireCall(k)
  \/ \E k \in Tasks : AcquireResume(k)
  \/ \E k \in Tasks : ReleaseCall(k)
  \/ \E k \in Tasks : ReleaseResume(k)
  \/ \E k \in Tasks, t \in Txs : StartCall(k, t)
  \/ \E k \in Tasks : StartResume(k)
  \/ \E t \in Txs : AllIdle /\ NewTransaction(t)
  \/ \E t \in Txs : AllIdle /\ Commit(t, NoFailure, 0)
  \/ \E t \in Txs : AllIdle /\ Rollback(t, NoFailure, 0)

SpecTasks == Init /\ [][NextTasks]_vars

\* ------------------------------------------------- termination in any order
\* await transaction.commit() on any active transaction, innermost or not; the
\* call may raise (the server refuses a savepoint it no longer knows), and
\* the transaction then stays as it is.
CommitAnyOrder(t) ==
  /\ tx_state[t] = "active"
  /\ \E s \in {commit(Now, t, {})} :
       /\ Return(s)
       /\ tx_state' = IF Ok(s) THEN [tx_state EXCEPT ![t] = "terminated"] ELSE tx_state
       /\ nesting' = IF Ok(s) THEN Remove(nesting, t) ELSE nesting
  /\ UNCHANGED <<held, faults, scope_vars, task_vars>>

\* await transaction.rollback() on any active transaction
RollbackAnyOrder(t) ==
  /\ tx_state[t] = "active"
  /\ \E s \in {rollback(Now, t, {})} :
       /\ Return(s)
       /\ tx_state' = IF Ok(s) THEN [tx_state EXCEPT ![t] = "terminated"] ELSE tx_state
       /\ nesting' = IF Ok(s) THEN Remove(nesting, t) ELSE nesting
  /\ UNCHANGED <<held, faults, scope_vars, task_vars>>

\* Statements and transactions, one call at a time, no external call raising
\* by itself; each transaction object is started once, and the active
\* transactions are terminated in any order.
NextAnyOrder ==
  \/ Fetchall(NoFailure, 0)
  \/ Fetchone(NoFailure, 0)
  \/ Execute(NoFailure, 0)
  \/ Executemany(NoFailure, FALSE, 0)
  \/ \E t \in Txs : NewTransaction(t)
  \/ \E t \in Txs : Start(t, NoFailure, 0)
  \/ \E t \in Txs : CommitAnyOrder(t)
  \/ \E t \in Txs : RollbackAnyOrder(t)

SpecAnyOrder == Init /\ [][NextAnyOrder]_vars

\* ------------------------------------------------------ rollback isolation
\* A session made with rollback_isolation=True: __init__ makes the isolation
\* transaction (the first transaction object of the session).  The database
\* holds any rows.
InitIsolation ==
  /\ NewSession
  /\ committed \in SUBSET Rows
  /\ persistent_before = committed
  /\ rollback_transaction = CHOOSE t \in Txs : \A u \in Txs : t <= u

\* `async with session:` is entered
Enter(Fs) ==
  \E pick \in Picks, F \in Fs :
    /\ scope = "out"
    /\ \E s \in {aenter(Now, rollback_transaction, pick, F)} :
         /\ Return(s)
         /\ scope' = IF Ok(s) THEN "in" ELSE "out"
         /\ IF Ok(s) /\ rollback_transaction # None
              THEN /\ tx_state' = [tx_state EXCEPT ![rollback_transaction] = "active"]
                   /\ nesting' = Append(nesting, rollback_transaction)
              ELSE UNCHANGED <<tx_state, nesting>>
    /\ UNCHANGED <<held, faults, rollback_transaction, persistent_before, task_vars>>

\* `async with session:` is left, normally or by an exception of its body
Exit(Fs) ==
  \E F \in Fs :
    /\ scope = "in"
    /\ \E s \in {aexit(Now, rollback_transaction, F)} :
         /\ Return(s)
         /\ IF Ok(s) /\ rollback_transaction # None
              THEN /\ tx_state' = [tx_state EXCEPT ![rollback_transaction] = "terminated"]
                   /\ nesting' = Remove(nesting, rollback_transaction)
              ELSE UNCHANGED <<tx_state, nesting>>
    /\ scope' = "closed"
    /\ UNCHANGED <<held, faults, rollback_transaction, persistent_before, task_vars>>

\* The statement of a statement call (or its row fetch) may raise.
StatementErrors == {{}, {"execute"}, {"fetch"}}

\* The transaction objects the caller has: not the session's own.
CallerTxs == Txs \ {rollback_transaction}

\* Inside the scope the caller takes and gives back leases, runs statements,
\* some of which raise, and transactions, nested properly; the scope may be
\* left at any moment, also with leases and transactions of the caller still
\* active.
NextIsolation ==
  \/ Enter(NoFailure)
  \/ Exit(NoFailure)
  \/ scope = "in" /\ AcquireConnection(NoFailure, 0)
  \/ scope = "in" /\ ReleaseConnection(NoFailure, 0)
  \/ scope = "in" /\ Fetchall(StatementErrors, MaxFaults)
  \/ scope = "in" /\ Fetchone(StatementErrors, MaxFaults)
  \/ scope = "in" /\ Execute(StatementErrors \ {{"fetch"}}, MaxFaults)
  \/ scope = "in" /\ Executemany(NoFailure, TRUE, MaxFaults)
  \/ \E t \in CallerTxs : scope = "in" /\ NewTransaction(t)
  \/ \E t \in CallerTxs : scope = "in" /\ Start(t, NoFailure, 0)
  \/ \E t \in CallerTxs : scope = "in" /\ Commit(t, NoFailure, 0)
  \/ \E t \in CallerTxs : scope = "in" /\ Rollback(t, NoFailure, 0)

SpecIsolation == InitIsolation /\ [][NextIsolation]_vars

\* ----------------------------------------------------------------- claims
\* The names of the external calls a call made.
Kinds(s) == {s.calls[i][1] : i \in 1 .. Len(s.calls)}

\* How many times a call made the external call `name`.
Count(s, name) == Cardinality({i \in 1 .. Len(s.calls) : s.calls[i][1] = name})

\* The invariant of the session's data model.
SessionInvariant ==
  /\ connection_holders >= 0
  /\ (conn # None) <=> (connection_holders > 0)

\* C1: in every state between two calls, also after calls in which
\* pool.acquire, the cursor creation or a statement raised, the session's conn
\* is non-null if and only if connection_holders is greater than 0.
C1_ConnIffHolders == (conn # None) <=> (connection_holders > 0)

\* C2: after any balanced sequence of acquire/release calls with all pool
\* calls succeeding (nobody holds a lease: the user took none it did not give
\* back and no transaction is active) connection_holders is 0, conn is None
\* and every connection is in the pool; a call of acquire_connection calls
\* pool.acquire exactly once when it takes the count from 0 to 1 and not at
\* all otherwise, and a call of release_connection calls pool.release exactly
\* once when it takes the count from 1 to 0 and not at all otherwise.
C2_BalancedLease ==
  /\ (held = 0 /\ nesting = <<>>) =>
       (connection_holders = 0 /\ conn = None /\ pool_free = Conns)
  /\ \A pick \in Picks :
       Count(acquire_connection(Now, pick, {}), "pool.acquire")
         = IF connection_holders = 0 THEN 1 ELSE 0
  /\ connection_holders > 0 =>
       Count(release_connection(Now, {}), "pool.release")
         = IF connection_holders = 1 THEN 1 ELSE 0
  /\ connection_holders > 0 => conn \notin pool_free

\* C2's case: the user holds a lease on top of the lease of a transaction, so
\* that the calls that do not move the count from or to 0 occur.
C2_Witness == held = 1 /\ nesting # <<>> /\ connection_holders = 2

\* C3: of the transactions active at the same time exactly one is root, the
\* outermost (the one started while has_root_transaction was false); a start()
\* while a root is open makes a non-root transaction and issues SAVEPOINT, not
\* BEGIN; a start() while none is open makes the root and issues BEGIN.
C3_OneRoot ==
  /\ nesting # <<>> =>
       /\ is_root[nesting[1]]
       /\ \A i \in 2 .. Len(nesting) : ~is_root[nesting[i]]
       /\ has_root_transaction
  /\ \A t \in Txs, pick \in Picks :
       (tx_state[t] = "unstarted" /\ Names \ UsedNames(Now) # {}) =>
         LET s == start(Now, t, pick, {}) IN
         IF nesting # <<>>
           THEN ~s.is_root[t] /\ "SAVEPOINT" \in Kinds(s) /\ "BEGIN" \notin Kinds(s)
           ELSE s.is_root[t] /\ "BEGIN" \in Kinds(s) /\ "SAVEPOINT" \notin Kinds(s)

\* C3's case: a root with a nested transaction started inside it, whose
\* savepoint the server holds.
C3_Witness ==
  /\ Len(nesting) = 2
  /\ is_root[nesting[1]] /\ ~is_root[nesting[2]]
  /\ savepoint_name[nesting[2]] \in SavepointNames(Now, conn)

\* C4: commit() and rollback() of an active transaction release its lease
\* whatever happens: whether the COMMIT / ROLLBACK / RELEASE SAVEPOINT /
\* ROLLBACK TO SAVEPOINT statement or the cursor close succeeds or raises,
\* connection_holders after the call is one less than before it.
C4_TerminationReleases ==
  \A t \in Txs :
    tx_state[t] = "active" =>
      /\ \A F \in Failures(CommitPoints) :
           commit(Now, t, F).holders = connection_holders - 1
      /\ \A F \in Failures(RollbackPoints) :
           rollback(Now, t, F).holders = connection_holders - 1

\* What C5 says of a statement call that ended in state s after its
\* execution (or fetch) raised `error`: the cursor is closed, the lease is
\* released (count and connection are what they were) and `error` is the
\* exception the caller receives.
FailedStatementCleansUp(s, error) ==
  /\ s.cursor = "closed"
  /\ s.holders = connection_holders
  /\ s.conn = conn
  /\ conn = None => s.free = pool_free
  /\ s.err = error
  /\ s.raised = <<error>>

\* C5: for fetchall, fetchone, execute and executemany, called in a state
\* that satisfies the session's invariant: if the statement execution (or the
\* row fetch) raises, and nothing else does, the cursor is closed and the
\* lease released before the call returns, so that connection_holders and
\* conn are the same after the call as before it, and the caller receives the
\* error of the statement.
C5_StatementErrorCleansUp ==
  SessionInvariant =>
    \A pick \in Picks :
      /\ \A e \in {"execute", "fetch"} :
           /\ FailedStatementCleansUp(fetchall(Now, pick, {e}), e)
           /\ FailedStatementCleansUp(fetchone(Now, pick, {e}), e)
      /\ \A r \in Rows :
           FailedStatementCleansUp(execute(Now, r, pick, {"execute"}), "execute")
      /\ \A values \in ValueLists : \A failAt \in 1 .. Len(values) :
           FailedStatementCleansUp(executemany(Now, values, failAt, pick, {}),
                                   "execute")

\* C5's case: inside a nested transaction, the INSERT of an execute() raises;
\* the call closes its cursor, gives back its own lease only (the two
\* transactions keep theirs, pool.release is not called) and raises the
\* error of the statement.
C5_Witness ==
  /\ Len(nesting) = 2
  /\ connection_holders = 2 + held
  /\ \E r \in Rows :
       LET s == execute(Now, r, None, {"execute"}) IN
       /\ s.err = "execute"
       /\ Kinds(s) = {"cursor", "INSERT", "cursor.close"}
       /\ s.cursor = "closed"
       /\ s.holders = connection_holders /\ s.conn = conn
       /\ r \notin View(s, conn)

\* What C6 says of a lease-taking call that ended in state s by raising: the
\* count is what it was before, and the connection is back in the pool when
\* that count is 0.
NoLeak(s) ==
  ~Ok(s) =>
    /\ s.holders = connection_holders
    /\ connection_holders = 0 => (s.conn = None /\ s.free = Conns)

\* C6: an error (or a cancellation) at any suspension point of a lease-taking
\* call (pool.acquire, cursor creation, execute, fetch, cursor close, BEGIN or
\* SAVEPOINT of start) never leaks the lease: after the call, the count is
\* what it was before and the connection is in the pool when that is 0.
C6_NoLeakOnError ==
  SessionInvariant =>
    \A pick \in Picks :
      /\ NoLeak(acquire_connection(Now, pick, {"pool.acquire"}))
      /\ \A F \in Failures(QueryPoints \ {"pool.release"}) :
           NoLeak(fetchall(Now, pick, F)) /\ NoLeak(fetchone(Now, pick, F))
      /\ \A F \in Failures(ExecutePoints \ {"pool.release"}) : \A r \in Rows :
           NoLeak(execute(Now, r, pick, F))
      /\ \A F \in Failures(StartPoints) : \A t \in Txs :
           (tx_state[t] = "unstarted" /\ Names \ UsedNames(Now) # {}) =>
             NoLeak(start(Now, t, pick, F))

\* Some root transaction is open: started, with BEGIN issued, and neither
\* committed nor rolled back.
RootOpen == \E t \in Txs : tx_state[t] = "active" /\ is_root[t]

\* C7: between two calls, has_root_transaction is true if and only if a root
\* transaction of the session is open, also after a start() whose lease
\* acquisition or BEGIN raised and after a root commit()/rollback() whose
\* statement raised.
C7_FlagIffRootOpen == has_root_transaction <=> RootOpen

\* C8: connection_holders is never negative: a release_connection() with no
\* matching acquire raises instead of decrementing, and leaves the count at 0
\* and conn None.
C8_NeverNegative == connection_holders >= 0

\* What C9 says of a commit() or rollback() that ended in state s: it raised
\* and changed neither the lease nor the root flag.
Rejected(s) ==
  /\ ~Ok(s)
  /\ s.holders = connection_holders
  /\ s.conn = conn
  /\ s.has_root = has_root_transaction

\* C9: commit() or rollback() of a transaction that was already committed or
\* rolled back raises, and leaves connection_holders, conn and
\* has_root_transaction unchanged.
C9_TerminatesOnce ==
  \A t \in Txs :
    tx_state[t] = "terminated" =>
      Rejected(commit(Now, t, {})) /\ Rejected(rollback(Now, t, {}))

\* The state in which the next call starts: no exception in flight.
Next_call(s) == [s EXCEPT !.err = "none", !.raised = <<>>, !.calls = <<>>,
                          !.cursor = "none"]

\* C10: with a root transaction r active (and nothing else), starting a nested
\* transaction n, inserting a row that was not there and rolling back n leaves
\* the row absent and the root active: has_root_transaction is true, the lease
\* is held on the same connection, the server still has the transaction
\* open, no ROLLBACK was issued; and a commit() of r then succeeds, ends the
\* transaction and does not make the row persistent.
C10_NestedRollback ==
  \A r \in Txs, n \in Txs, row \in Rows :
    ( /\ nesting = <<r>>
      /\ tx_state[n] = "unstarted"
      /\ Names \ UsedNames(Now) # {}
      /\ row \notin View(Now, conn) ) =>
      LET s1 == start(Now, n, None, {})
          s2 == execute(Next_call(s1), row, None, {})
          s3 == rollback(Next_call(s2), n, {})
          s4 == commit(Next_call(s3), r, {})
      IN /\ Ok(s1) /\ Ok(s2) /\ Ok(s3)
         /\ row \in View(s2, conn)
         /\ row \notin View(s3, conn)
         /\ s3.has_root
         /\ s3.conn = conn /\ s3.conn = tx_conn[r] /\ s3.conn \notin s3.free
         /\ s3.holders = connection_holders /\ s3.holders > 0
         /\ s3.in_trans[conn]
         /\ Kinds(s3) = {"cursor", "ROLLBACK TO SAVEPOINT", "cursor.close"}
         /\ Ok(s4)
         /\ "COMMIT" \in Kinds(s4)
         /\ ~s4.has_root
         /\ s4.holders = connection_holders - 1
         /\ s4.committed = committed \cup pending[conn]
         /\ row \notin s4.committed

\* C10's case: a nested transaction was rolled back inside a root that is
\* still active; the server still knows its savepoint and has the root's
\* transaction open.
C10_Witness ==
  \E r \in Txs, n \in Txs :
    /\ nesting = <<r>> /\ is_root[r]
    /\ tx_state[n] = "terminated" /\ ~is_root[n]
    /\ savepoint_name[n] \in SavepointNames(Now, conn)
    /\ in_trans[conn] /\ pending[conn] = {}

\* C11: with a root transaction r active (and nothing else), starting a nested
\* transaction n, inserting a row that was not there, committing n and then
\* committing r makes the row persistent: the commit of n issues RELEASE
\* SAVEPOINT and no COMMIT, and leaves the root open (flag true, server
\* transaction open, the row still uncommitted); the commit of r issues COMMIT,
\* after which has_root_transaction is false and the lease of r is given back
\* (connection_holders is 0 when r held the only lease).
C11_NestedCommit ==
  \A r \in Txs, n \in Txs, row \in Rows :
    ( /\ nesting = <<r>>
      /\ tx_state[n] = "unstarted"
      /\ Names \ UsedNames(Now) # {}
      /\ row \notin View(Now, conn) ) =>
      LET s1 == start(Now, n, None, {})
          s2 == execute(Next_call(s1), row, None, {})
          s3 == commit(Next_call(s2), n, {})
          s4 == commit(Next_call(s3), r, {})
      IN /\ Ok(s1) /\ Ok(s2) /\ Ok(s3) /\ Ok(s4)
         /\ Kinds(s3) = {"cursor", "RELEASE SAVEPOINT", "cursor.close"}
         /\ s3.has_root /\ s3.in_trans[conn]
         /\ row \in s3.pending[conn] /\ row \notin s3.committed
         /\ s3.holders = connection_holders
         /\ "COMMIT" \in Kinds(s4)
         /\ row \in s4.committed
         /\ ~s4.has_root
         /\ s4.holders = connection_holders - 1
         /\ held = 0 => (s4.holders = 0 /\ s4.conn = None /\ s4.free = Conns)

\* C11's case: a nested transaction was committed inside a root that is still
\* active: its savepoint is released and the row it inserted is part of the
\* root's uncommitted work.
C11_Witness ==
  \E r \in Txs, n \in Txs :
    /\ nesting = <<r>> /\ is_root[r]
    /\ tx_state[n] = "terminated" /\ ~is_root[n]
    /\ savepoint_name[n] # None
    /\ savepoint_name[n] \notin SavepointNames(Now, conn)
    /\ pending[conn] # {} /\ committed = {}

\* The names of the external calls a call made, in the order it made them,
\* and the connections it made them on.
CallNames(s) == [i \in 1 .. Len(s.calls) |-> s.calls[i][1]]

CallConns(s) == {s.calls[i][2] : i \in 1 .. Len(s.calls)}

C15_LeasePerTransaction == connection_holders = Len(nesting)

\* C15 (amended): between two calls connection_holders is the number of
\* active transactions plus the number of leases the caller took with
\* acquire_connection and did not give back; start() adds exactly one lease,
\* commit() and rollback() take exactly one away, and a statement call holds
\* exactly one more while it is in flight and none when it returns.
C15_LeasePerHolder ==
  /\ connection_holders = Len(nesting) + held
  /\ \A t \in Txs, pick \in Picks :
       (tx_state[t] = "unstarted" /\ Names \ UsedNames(Now) # {}
          /\ (conn # None \/ pick # None)) =>
         start(Now, t, pick, {}).holders = connection_holders + 1
  /\ nesting # <<>> =>
       /\ commit(Now, Top(nesting), {}).holders = connection_holders - 1
       /\ rollback(Now, Top(nesting), {}).holders = connection_holders - 1
  /\ \A pick \in Picks, r \in Rows :
       (conn # None \/ pick # None) =>
         /\ acquire_connection(Now, pick, {}).holders = connection_holders + 1
         /\ execute(Now, r, pick, {}).holders = connection_holders
         /\ fetchall(Now, pick, {}).holders = connection_holders
         /\ fetchone(Now, pick, {}).holders = connection_holders

\* C15's case: two transactions are active, each with its lease, on the
\* connection of the session.
C15_Witness ==
  /\ Len(nesting) = 2
  /\ connection_holders = 2 + held
  /\ \A i \in 1 .. 2 : tx_conn[nesting[i]] = conn

\* C16: commit() and rollback() of a transaction whose is_root is false leave
\* has_root_transaction as it is, whatever state the object is in; a start()
\* while the flag is set leaves it set and the new transaction non-root; a
\* statement call does not change the flag; and a commit() or rollback() that
\* clears the flag is the one of the root, the outermost active transaction,
\* which set it.
C16_NonRootKeepsFlag ==
  /\ \A t \in Txs :
       ~is_root[t] =>
         /\ commit(Now, t, {}).has_root = has_root_transaction
         /\ rollback(Now, t, {}).has_root = has_root_transaction
  /\ \A t \in Txs :
       (has_root_transaction /\ tx_state[t] = "unstarted"
          /\ Names \ UsedNames(Now) # {}) =>
         LET s == start(Now, t, None, {}) IN s.has_root /\ ~s.is_root[t]
  /\ \A pick \in Picks, r \in Rows :
       /\ execute(Now, r, pick, {}).has_root = has_root_transaction
       /\ fetchall(Now, pick, {}).has_root = has_root_transaction
  /\ nesting # <<>> =>
       LET t == Top(nesting) IN
       \A s \in {commit(Now, t, {}), rollback(Now, t, {})} :
         (has_root_transaction /\ ~s.has_root) => (t = nesting[1] /\ is_root[t])

\* C16's case: a nested transaction has been started and ended inside a root
\* that is active, and the flag is still set.
C16_Witness ==
  /\ has_root_transaction
  /\ Len(nesting) = 1 /\ is_root[nesting[1]]
  /\ \E n \in Txs : tx_state[n] = "terminated" /\ ~is_root[n]

\* C17: commit() and rollback() of a transaction that session.transaction()
\* made and that was never started raise, make no external call at all (no
\* statement is sent) and leave connection_holders, conn, has_root_transaction
\* and the pool as they are.
C17_UnstartedRejected ==
  \A t \in Txs :
    tx_state[t] = "unstarted" =>
      \A s \in {commit(Now, t, {}), rollback(Now, t, {})} :
        /\ Rejected(s)
        /\ s.calls = <<>>
        /\ s.free = pool_free
        /\ s.committed = committed /\ s.pending = pending

\* C17's case: a transaction object that was never started, while the
\* session holds a connection for a root transaction and for the caller.
C17_Witness ==
  /\ Len(nesting) = 1 /\ held = 1 /\ conn # None
  /\ \E t \in Txs : tx_state[t] = "unstarted" /\ tx_conn[t] = None

\* C12: for a session made with rollback_isolation, whatever statements and
\* nested transactions the caller runs inside the scope, whether a statement
\* raised and whether transactions of the caller are still active when the
\* scope is left: inside the scope nothing becomes persistent; leaving it
\* issues ROLLBACK on the session's connection; and after it the isolation
\* transaction is terminated, the root flag is clear, no connection has a
\* transaction open or uncommitted rows, and the persistent rows are those of
\* before.
C12_IsolationRollsBack ==
  /\ scope # "out" => committed = persistent_before
  /\ scope = "in" =>
       /\ nesting # <<>> /\ nesting[1] = rollback_transaction
       /\ is_root[rollback_transaction]
       /\ LET s == aexit(Now, rollback_transaction, {}) IN
          /\ Ok(s)
          /\ CallNames(s) \in {<<"ROLLBACK">>, <<"ROLLBACK", "pool.release">>}
          /\ CallConns(s) = {conn}
          /\ s.committed = persistent_before
  /\ scope = "closed" =>
       /\ tx_state[rollback_transaction] = "terminated"
       /\ ~has_root_transaction
       /\ \A c \in Conns : pending[c] = {} /\ ~in_trans[c]

\* C12's case: the scope was left while a nested transaction of the caller,
\* started inside it, was still active, and after a statement had raised.
C12_Witness ==
  /\ scope = "closed"
  /\ faults > 0
  /\ \E t \in CallerTxs : tx_state[t] = "active" /\ savepoint_name[t] # None

\* Every external call of a call that ended in state s, pool.acquire aside,
\* was made on the connection `used`, which the pool did not hold then.
OnHeldConnection(s, used) ==
  \A i \in 1 .. Len(s.calls) :
    s.calls[i][1] # "pool.acquire" => (s.calls[i][2] = used /\ ~s.calls[i][3])

\* C14: with transactions started once and terminated in any order: every
\* active transaction refers to the connection of the session, which the
\* session holds with a count above 0 and the pool does not hold; every
\* BEGIN, COMMIT, ROLLBACK, savepoint statement, statement and cursor
\* operation of a call is made on a connection the session holds, never on
\* one that is back in the pool; and as long as the count stays above 0 the
\* connection stays the same.
C14_ExclusiveOwnership ==
  /\ connection_holders > 0 => (conn # None /\ conn \notin pool_free)
  /\ connection_holders = 0 => conn = None
  /\ \A t \in Txs :
       tx_state[t] = "active" => (connection_holders > 0 /\ tx_conn[t] = conn)
  /\ \A t \in Txs :
       tx_state[t] = "active" =>
         \A s \in {commit(Now, t, {}), rollback(Now, t, {})} :
           /\ OnHeldConnection(s, conn)
           /\ s.holders > 0 => s.conn = conn
  /\ \A pick \in Picks :
       (conn # None \/ pick # None) =>
         LET used == IF conn = None THEN pick ELSE conn IN
         /\ \A t \in Txs :
              (tx_state[t] = "unstarted" /\ Names \ UsedNames(Now) # {}) =>
                LET s == start(Now, t, pick, {}) IN
                OnHeldConnection(s, used) /\ s.conn = used /\ s.tx_conn[t] = used
         /\ \A s \in {fetchall(Now, pick, {}), fetchone(Now, pick, {})}
                      \cup {execute(Now, r, pick, {}) : r \in Rows}
                      \cup {executemany(Now, v, 0, pick, {}) : v \in ValueLists} :
              OnHeldConnection(s, used) /\ s.conn = conn

\* C14's case: the root was ended before the transaction nested in it, which
\* is still active and still holds the connection.
C14_Witness ==
  \E r \in Txs, n \in Txs :
    /\ tx_state[r] = "terminated" /\ is_root[r]
    /\ tx_state[n] = "active" /\ ~is_root[n]
    /\ tx_conn[r] = tx_conn[n]
    /\ ~has_root_transaction
    /\ connection_holders = 1

\* The transactions whose start() was called and that are not terminated.
Started(t) == tx_state[t] \in {"starting", "active"}

\* C18: with start() calls of several tasks overlapping at the suspension in
\* pool.acquire: of the transactions that are started and not terminated at
\* most one is root, and the flag is set while there is one; a start() called
\* while such a root exists does not become root; and a start() that is
\* resumed issues BEGIN if and only if its transaction is that root, so that
\* no BEGIN is issued while another root is open.
C18_OneRootAmongTasks ==
  /\ Cardinality({t \in Txs : Started(t) /\ is_root[t]}) <= 1
  /\ (\E t \in Txs : Started(t) /\ is_root[t]) => has_root_transaction
  /\ \A t \in Txs :
       tx_state[t] = "unstarted" =>
         LET s == start_call(Now, t) IN
         /\ s.has_root
         /\ s.is_root[t] <=> ~has_root_transaction
         /\ (\E r \in Txs : Started(r) /\ is_root[r]) => ~s.is_root[t]
  /\ \A k \in Tasks, pick \in pool_free :
       (pc[k].at = "start"
          /\ (~is_root[pc[k].tx] => Names \ UsedNames(Now) # {})) =>
         LET s == start_resume(Now, pc[k].tx, pick) IN
         /\ "BEGIN" \in Kinds(s) <=> is_root[pc[k].tx]
         /\ "BEGIN" \in Kinds(s) =>
              \A r \in Txs \ {pc[k].tx} : ~(Started(r) /\ is_root[r])

\* C18's case: two tasks are suspended in start() at the same time, the
\* transaction of one is root and that of the other is not.
C18_Witness ==
  \E k1 \in Tasks, k2 \in Tasks :
    /\ pc[k1].at = "start" /\ pc[k2].at = "start"
    /\ is_root[pc[k1].tx] /\ ~is_root[pc[k2].tx]
    /\ connection_holders = 2

\* C19: with acquire_connection() and release_connection() calls of several
\* tasks overlapping at the suspensions in pool.acquire and pool.release: the
\* session has at most one connection out of the pool; no task holds a lease
\* on a connection that is back in the pool; and when no call is in flight
\* and nobody holds a lease every connection is in the pool.
C19_OneConnectionAmongTasks ==
  /\ Cardinality(Conns \ pool_free) <= 1
  /\ \A k \in Tasks : lease[k] # None => lease[k] \notin pool_free
  /\ (AllIdle /\ nesting = <<>> /\ \A k \in Tasks : lease[k] = None) =>
       pool_free = Conns

====
